---- MODULE Spec2Model ----
(***************************************************************************)
(* Model of py65/utils/console.py: the terminal mode controller           *)
(* (save_mode, noncanonical_mode, restore_mode), the single-character     *)
(* reads (getch, getch_noblock) in their POSIX and Windows variants, and  *)
(* the line editor line_input built on getch.                             *)
(*                                                                         *)
(* Strings are sequences of code points; '' is the empty sequence.        *)
(* One thread of control: pc is its position, op the top-level call it is *)
(* in (or the last one that ended), outcome how that call ended.          *)
(***************************************************************************)
EXTENDS Integers, Sequences, FiniteSets, TLC

VARIABLES
    platform,   \* "posix" or "win": the variant the module defined at import
    isatty,     \* the input handle is a terminal
    term,       \* the live terminal configuration
    oldattr,    \* the module's saved configuration, None before any save
    snap,       \* history: the configuration that was live at the last
                \* save_mode whose tcgetattr succeeded, None before any
    pc,         \* position of the thread of control
    op,         \* the top-level call in progress, or the last that ended
    outcome,    \* "running", "return" or "KeyboardInterrupt"
    retval,     \* what the last call returned
    intr,       \* history: an interrupt arrived during the call op
    repeat,     \* history: the call op is a mode function called directly
                \* after a call of the same function that ended with no
                \* interrupt
    avail,      \* history: the keystroke the stream had at the last read
    rd,         \* history: how the last read of the call ended
    reads,      \* history: the reads the getch_noblock call has made
    char,       \* getch's, getch_noblock's and line_input's local char
    prompt,     \* line_input's argument
    line,       \* line_input's buffer
    out,        \* what the line_input call has written to stdout
    delivered   \* history: the characters getch returned to line_input

vars == <<platform, isatty, term, oldattr, snap, pc, op, outcome, retval,
          intr, repeat, avail, rd, reads, char, prompt, line, out, delivered>>

(***************************************************************************)
(* Bounds of the model.                                                    *)
(***************************************************************************)
\* Most characters one line_input call is given, its terminator included.
MaxKeys == 4

(***************************************************************************)
(* Code points the program names.                                          *)
(***************************************************************************)
LF == 10
CR == 13
BS == 8
DEL == 127
ESC == 27
SPACE == 32
ErasePad == 5
VMinValue == 0
VTimeValue == 1

\* 'a' and 'b' stand for the ordinary characters.
Ordinary == {97, 98}
Chars == Ordinary \cup {LF, CR, BS, DEL, ESC}
\* '' and '>'
Prompts == {<<>>, <<62>>}

(***************************************************************************)
(* Terminal attributes: the local-mode flags and the control characters   *)
(* of a termios attribute list.                                            *)
(***************************************************************************)
None == [none |-> TRUE]
Str(s) == [str |-> s]

InitAttrs ==
    { [lflag |-> {"ICANON", "ECHO", "ISIG"}, cc |-> [VMIN |-> 1, VTIME |-> 0, VINTR |-> 3]],
      [lflag |-> {"ECHO"},                   cc |-> [VMIN |-> 0, VTIME |-> 0, VINTR |-> 3]] }

\* Where an interrupt may arrive in a call of a mode function: not at all,
\* before its try statement is entered, inside the try before the termios
\* call has taken effect, inside the try after it has.
IntrPoints == {"none", "entry", "pre", "post"}

\* The bare "except: pass" of the POSIX mode functions catches every
\* exception raised inside the try, KeyboardInterrupt included.
Swallowed(i) == platform = "posix" /\ i \in {"pre", "post"}

\* The interrupt leaves the function as a KeyboardInterrupt.
Raises(i) == i # "none" /\ ~Swallowed(i)

\* The points at which an interrupt can arrive: the Windows functions hold
\* no try statement.
Points == IF platform = "posix" THEN IntrPoints ELSE {"none", "entry"}

\* termios.tcgetattr(fd): a fresh copy of the live configuration; raises
\* termios.error when the handle is no terminal.
tcgetattr == term

\* tcgetattr succeeds on every handle, terminal or not.
TermiosDone_AnyHandle(i) == platform = "posix" /\ i \in {"none", "post"}

\* The termios call inside the try is reached and succeeds.
TermiosDone(i) == platform = "posix" /\ isatty /\ i \in {"none", "post"}

\* newattr[3] = 0: every local-mode flag is cleared.
NewAttr_ClearsFlags(currentattr) ==
    [lflag |-> {},
     cc    |-> [currentattr.cc EXCEPT !.VMIN = VMinValue, !.VTIME = VTimeValue]]

\* newattr[3] &= ~termios.ICANON: echo stays on.
NewAttr_KeepsEcho(currentattr) ==
    [lflag |-> currentattr.lflag \ {"ICANON"},
     cc    |-> [currentattr.cc EXCEPT !.VMIN = VMinValue, !.VTIME = VTimeValue]]

\* newattr: canonical mode and echo off, VMIN 0, VTIME 1.
NewAttr(currentattr) ==
    [lflag |-> currentattr.lflag \ {"ICANON", "ECHO"},
     cc    |-> [currentattr.cc EXCEPT !.VMIN = VMinValue, !.VTIME = VTimeValue]]

\* save_mode that keeps a saved state that already exists.
SavedAttr_KeepsFirst(i) ==
    IF TermiosDone(i) /\ oldattr = None THEN tcgetattr ELSE oldattr

\* save_mode that stores the attributes of noncanonical mode.
SavedAttr_Noncanonical(i) ==
    IF TermiosDone(i) THEN NewAttr(tcgetattr) ELSE oldattr

\* except: oldattr = None.  A failed save_mode forgets the saved state.
SavedAttr_ClearsOnFailure(i) == IF TermiosDone(i) THEN tcgetattr ELSE None

\* oldattr after save_mode.
SavedAttr(i) == IF TermiosDone(i) THEN tcgetattr ELSE oldattr

\* The live configuration after noncanonical_mode.
NoncanonicalTerm(i) == IF TermiosDone(i) THEN NewAttr(tcgetattr) ELSE term

\* restore_mode without its tcsetattr call.
RestoredTerm_Live(i) == term

\* restore_mode that switches back to noncanonical mode when the saved
\* configuration is already the live one.
RestoredTerm_Toggle(i) ==
    IF TermiosDone(i) /\ oldattr # None
    THEN IF term = oldattr THEN NewAttr(oldattr) ELSE oldattr
    ELSE term

\* restore_mode that, without a saved state, switches canonical mode and
\* echo back on.
RestoredTerm_Default(i) ==
    IF TermiosDone(i)
    THEN IF oldattr # None THEN oldattr
         ELSE [term EXCEPT !.lflag = @ \cup {"ICANON", "ECHO"}]
    ELSE term

\* The live configuration after restore_mode.
RestoredTerm(i) ==
    IF TermiosDone(i) /\ oldattr # None THEN oldattr ELSE term

(***************************************************************************)
(* The state after construction (module import).                           *)
(***************************************************************************)
Init ==
    /\ platform \in {"posix", "win"}
    /\ isatty \in BOOLEAN
    /\ term \in InitAttrs
    /\ (platform = "win" \/ ~isatty) =>
           term = [lflag |-> {"ICANON", "ECHO", "ISIG"},
                   cc |-> [VMIN |-> 1, VTIME |-> 0, VINTR |-> 3]]
    /\ platform = "win" => isatty
    /\ oldattr = None
    /\ snap = None
    /\ repeat = FALSE
    /\ avail = <<>>
    /\ pc = "idle"
    /\ op = "none"
    /\ outcome = "return"
    /\ retval = None
    /\ intr = FALSE
    /\ rd = "none"
    /\ reads = 0
    /\ char = <<>>
    /\ prompt = <<>>
    /\ line = <<>>
    /\ out = <<>>
    /\ delivered = <<>>

\* What a call from the idle position resets: the record of the call before.
Fresh ==
    /\ avail' = <<>>
    /\ rd' = "none"
    /\ reads' = 0
    /\ char' = <<>>
    /\ prompt' = <<>>
    /\ line' = <<>>
    /\ out' = <<>>
    /\ delivered' = <<>>

\* A mode function o ends: it returns None, or the interrupt leaves it.
ModeEnds(o, i) ==
    /\ op' = o
    /\ repeat' = (op = o /\ outcome = "return" /\ ~intr)
    /\ pc' = "idle"
    /\ intr' = (i # "none")
    /\ outcome' = IF Raises(i) THEN "KeyboardInterrupt" ELSE "return"
    /\ retval' = None

InLine == op = "line_input" /\ pc # "idle"

save_mode(i) ==
    /\ pc = "idle"
    /\ i \in Points
    /\ oldattr' = SavedAttr(i)
    /\ snap' = IF TermiosDone(i) THEN term ELSE snap
    /\ ModeEnds("save_mode", i)
    /\ Fresh
    /\ UNCHANGED <<platform, isatty, term>>

noncanonical_mode(i) ==
    /\ pc = "idle"
    /\ i \in Points
    /\ term' = NoncanonicalTerm(i)
    /\ ModeEnds("noncanonical_mode", i)
    /\ Fresh
    /\ UNCHANGED <<platform, isatty, oldattr, snap>>

restore_mode(i) ==
    /\ pc = "idle"
    /\ i \in Points
    /\ term' = RestoredTerm(i)
    /\ ModeEnds("restore_mode", i)
    /\ Fresh
    /\ UNCHANGED <<platform, isatty, oldattr, snap>>


(***************************************************************************)
(* The single-character reads.  What the input stream holds is an input   *)
(* of each read: a key is the keystroke the stream has ready, '' when it  *)
(* has none.                                                               *)
(***************************************************************************)
Keys == {<<>>} \cup {<<c>> : c \in Chars}

\* How one stdin.read(1) (POSIX) or msvcrt.getch() (Windows) can end: with
\* a character, with no character, with an error that is no interrupt,
\* with a KeyboardInterrupt.
Reads ==
    {[kind |-> "char", key |-> <<c>>] : c \in Chars}
    \cup {[kind |-> k, key |-> <<>>] : k \in {"empty", "error", "interrupt"}}

\* A short-timeout read returns no character when none is there: on a
\* terminal with canonical mode off and VMIN 0; a redirected stream returns
\* no character at its end.  Otherwise the read waits for a character.
ReadTimesOut ==
    ~isatty \/ ("ICANON" \notin term.lflag /\ term.cc.VMIN = 0)

\* The ways the read can end in this state.  msvcrt.getch() waits for a
\* keystroke and returns it.
ReadResults ==
    IF platform = "win"
    THEN {r \in Reads : r.kind = "char"}
    ELSE {r \in Reads : r.kind = "empty" => ReadTimesOut}

\* bytes.decode('latin-1'): byte n becomes code point n.
Latin1Decode(bytes) == [k \in 1..Len(bytes) |-> bytes[k] % 256]

\* The value char holds after the read: the character read, or still ''
\* when the read yielded nothing or failed and the failure was passed over.
ReadChar(r) ==
    IF r.kind = "char"
    THEN IF platform = "win" THEN Latin1Decode(r.key) ELSE r.key
    ELSE <<>>

\* The read's handler with no "except KeyboardInterrupt: raise" clause.
ReadRaises_Never(r) == FALSE

\* except KeyboardInterrupt: raise.  The interrupt the read raised leaves
\* getch and getch_noblock; every other exception is passed over.
ReadRaises(r) == r.kind = "interrupt"

\* getch with "if" for "while": one read, then the return.
GetchLoops_Never(ch) == FALSE

\* while True: the loop of getch has no exit.
GetchLoops_Always(ch) == TRUE

\* while char == '': getch asks again.
GetchLoops(ch) == ch = <<>>

\* getch_noblock (POSIX): a newline read becomes a carriage return.
Normalize(ch) == IF ch = <<LF>> THEN <<CR>> ELSE ch

\* getch_noblock (Windows) without its kbhit test.
kbhit_Always(k) == TRUE

\* msvcrt.kbhit()
kbhit(k) == k # <<>>

\* The call in progress ends with the interrupt.
Propagate ==
    /\ pc' = "idle"
    /\ intr' = TRUE
    /\ outcome' = "KeyboardInterrupt"
    /\ retval' = None

\* The call in progress returns v.
Return(v) ==
    /\ pc' = "idle"
    /\ outcome' = "return"
    /\ retval' = v

\* getch is called: char = '', then (POSIX) noncanonical_mode(stdin).
getch(i) ==
    /\ pc = "idle"
    /\ i \in Points
    /\ op' = "getch"
    /\ Fresh
    /\ term' = NoncanonicalTerm(i)
    /\ intr' = (i # "none")
    /\ retval' = None
    /\ IF Raises(i)
       THEN pc' = "idle" /\ outcome' = "KeyboardInterrupt"
       ELSE pc' = "getch_read" /\ outcome' = "running"
    /\ repeat' = FALSE
    /\ UNCHANGED <<platform, isatty, oldattr, snap>>

\* One turn of getch's loop: a read, then the loop test and the return,
\* to the caller of getch or into line_input.
GetchRead(r) ==
    /\ pc = "getch_read"
    /\ r \in ReadResults
    /\ (InLine /\ Len(delivered) >= MaxKeys - 1) => r.key \notin {<<c>> : c \in Chars \ {LF, CR}}
    /\ rd' = r.kind
    /\ avail' = r.key
    /\ LET ch == ReadChar(r) IN
       IF ReadRaises(r)
       THEN /\ Propagate
            /\ UNCHANGED <<char, delivered>>
       ELSE IF GetchLoops(ch)
       THEN UNCHANGED <<pc, intr, outcome, retval, char, delivered>>
       ELSE IF op = "getch"
       THEN /\ Return(Str(ch))
            /\ char' = ch
            /\ UNCHANGED <<intr, delivered>>
       ELSE /\ pc' = "li_char"
            /\ char' = ch
            /\ delivered' = delivered \o ch
            /\ UNCHANGED <<intr, outcome, retval>>
    /\ UNCHANGED <<platform, isatty, term, oldattr, snap, repeat, op, reads,
                   prompt, line, out>>

\* getch_noblock is called.  POSIX: char = '', noncanonical_mode(stdin),
\* and the read is next.  Windows: the whole function, which reads only
\* when a keystroke k is there.
getch_noblock(i, k) ==
    /\ pc = "idle"
    /\ i \in Points
    /\ (platform = "posix" \/ Raises(i)) => k = <<>>
    /\ op' = "getch_noblock"
    /\ prompt' = <<>> /\ line' = <<>> /\ out' = <<>> /\ delivered' = <<>>
    /\ term' = NoncanonicalTerm(i)
    /\ intr' = (i # "none")
    /\ avail' = k
    /\ IF Raises(i)
       THEN /\ pc' = "idle" /\ outcome' = "KeyboardInterrupt" /\ retval' = None
            /\ rd' = "none" /\ reads' = 0 /\ char' = <<>>
       ELSE IF platform = "posix"
       THEN /\ pc' = "noblock_read" /\ outcome' = "running" /\ retval' = None
            /\ rd' = "none" /\ reads' = 0 /\ char' = <<>>
       ELSE IF kbhit(k)
       THEN /\ Return(Str(ReadChar([kind |-> "char", key |-> k])))
            /\ rd' = "char" /\ reads' = 1
            /\ char' = ReadChar([kind |-> "char", key |-> k])
       ELSE /\ Return(Str(<<>>))
            /\ rd' = "none" /\ reads' = 0 /\ char' = <<>>
    /\ repeat' = FALSE
    /\ UNCHANGED <<platform, isatty, oldattr, snap>>

\* getch_noblock (POSIX): the read, the normalisation and the return.
NoblockRead(r) ==
    /\ pc = "noblock_read"
    /\ r \in ReadResults
    /\ rd' = r.kind
    /\ avail' = r.key
    /\ reads' = reads + 1
    /\ IF ReadRaises(r)
       THEN Propagate /\ UNCHANGED char
       ELSE /\ Return(Str(Normalize(ReadChar(r))))
            /\ char' = Normalize(ReadChar(r))
            /\ UNCHANGED intr
    /\ UNCHANGED <<platform, isatty, term, oldattr, snap, repeat, op, prompt,
                   line, out, delivered>>

(***************************************************************************)
(* line_input.                                                             *)
(***************************************************************************)
Spaces(n) == [k \in 1..n |-> SPACE]

IsTerminator(ch) == ch \in {<<LF>>, <<CR>>}

IsBackspace(ch) == ch[1] \in {DEL, BS}

\* line = char + line
NextLine_Prepend(ln, ch) ==
    IF IsBackspace(ch)
    THEN IF Len(ln) > 0 THEN SubSeq(ln, 1, Len(ln) - 1) ELSE ln
    ELSE IF ch[1] = ESC THEN ln
    ELSE ch \o ln

\* Backspace empties the buffer.
NextLine_BackspaceClears(ln, ch) ==
    IF IsBackspace(ch) THEN <<>>
    ELSE IF ch[1] = ESC THEN ln
    ELSE ln \o ch

\* No branch for the escape character.
NextLine_KeepsEsc(ln, ch) ==
    IF IsBackspace(ch)
    THEN IF Len(ln) > 0 THEN SubSeq(ln, 1, Len(ln) - 1) ELSE ln
    ELSE ln \o ch

\* The buffer after one character that is no terminator.
NextLine(ln, ch) ==
    IF IsBackspace(ch)
    THEN IF Len(ln) > 0 THEN SubSeq(ln, 1, Len(ln) - 1) ELSE ln
    ELSE IF ch[1] = ESC THEN ln
    ELSE ln \o ch

\* The erase sequence blanks prompt and buffer only, without the margin.
Written_NoMargin(pr, ln, ch) ==
    IF IsBackspace(ch)
    THEN IF Len(ln) > 0
         THEN LET l2 == SubSeq(ln, 1, Len(ln) - 1) IN
              <<CR>> \o Spaces(Len(pr \o l2)) \o <<CR>> \o pr \o l2
         ELSE <<>>
    ELSE IF ch[1] = ESC THEN <<>>
    ELSE ch

\* What is written to stdout for one character that is no terminator.
Written(pr, ln, ch) ==
    IF IsBackspace(ch)
    THEN IF Len(ln) > 0
         THEN LET l2 == SubSeq(ln, 1, Len(ln) - 1) IN
              <<CR>> \o Spaces(Len(pr \o l2) + ErasePad) \o <<CR>> \o pr \o l2
         ELSE <<>>
    ELSE IF ch[1] = ESC THEN <<>>
    ELSE ch

\* line_input is called: the prompt is written and the buffer is empty.
line_input(p) ==
    /\ pc = "idle"
    /\ op' = "line_input"
    /\ pc' = "li_call"
    /\ outcome' = "running"
    /\ retval' = None
    /\ intr' = FALSE
    /\ avail' = <<>>
    /\ rd' = "none" /\ reads' = 0 /\ char' = <<>>
    /\ prompt' = p
    /\ out' = p
    /\ line' = <<>>
    /\ delivered' = <<>>
    /\ repeat' = FALSE
    /\ UNCHANGED <<platform, isatty, term, oldattr, snap>>

\* line_input calls getch: char = '', then (POSIX) noncanonical_mode(stdin).
LineGetch(i) ==
    /\ pc = "li_call"
    /\ i \in Points \ {"entry"}
    /\ term' = NoncanonicalTerm(i)
    /\ intr' = (intr \/ i # "none")
    /\ avail' = <<>>
    /\ rd' = "none" /\ reads' = 0 /\ char' = <<>>
    /\ pc' = "getch_read"
    /\ UNCHANGED <<platform, isatty, oldattr, snap, repeat, op, outcome,
                   retval, prompt, line, out, delivered>>

\* line_input handles the character getch returned.
LineProcess ==
    /\ pc = "li_char"
    /\ IF IsTerminator(char)
       THEN /\ Return(Str(line))
            /\ UNCHANGED <<line, out>>
       ELSE /\ line' = NextLine(line, char)
            /\ out' = out \o Written(prompt, line, char)
            /\ pc' = "li_call"
            /\ UNCHANGED <<outcome, retval>>
    /\ UNCHANGED <<platform, isatty, term, oldattr, snap, repeat, avail, op,
                   intr, rd, reads, char, prompt, delivered>>

\* An interrupt arrives while a call is in progress, outside every try
\* statement: the KeyboardInterrupt leaves the call.
Interrupt ==
    /\ pc # "idle"
    /\ Propagate
    /\ UNCHANGED <<platform, isatty, term, oldattr, snap, repeat, avail, op,
                   rd, reads, char, prompt, line, out, delivered>>

\* The loop of line_input as a function of the characters getch returns:
\* the buffer after the characters s, from the buffer ln.
RECURSIVE LineAfter(_, _)
LineAfter(ln, s) ==
    IF s = <<>> \/ IsTerminator(<<Head(s)>>) THEN ln
    ELSE LineAfter(NextLine(ln, <<Head(s)>>), Tail(s))

\* What the loop writes to stdout for the characters s, from the buffer ln.
RECURSIVE OutAfter(_, _, _)
OutAfter(pr, ln, s) ==
    IF s = <<>> \/ IsTerminator(<<Head(s)>>) THEN <<>>
    ELSE Written(pr, ln, <<Head(s)>>)
         \o OutAfter(pr, NextLine(ln, <<Head(s)>>), Tail(s))

Next ==
    \/ \E i \in IntrPoints : save_mode(i)
    \/ \E i \in IntrPoints : noncanonical_mode(i)
    \/ \E i \in IntrPoints : restore_mode(i)
    \/ \E i \in IntrPoints : getch(i)
    \/ \E r \in Reads : GetchRead(r)
    \/ \E i \in IntrPoints, k \in Keys : getch_noblock(i, k)
    \/ \E r \in Reads : NoblockRead(r)
    \/ \E p \in Prompts : line_input(p)
    \/ \E i \in IntrPoints : LineGetch(i)
    \/ LineProcess
    \/ Interrupt

Spec == Init /\ [][Next]_vars

\* A read of getch to which the stream yields a character.
CharRead == \E r \in Reads : r.kind = "char" /\ GetchRead(r)

\* The blocking calls alone: getch and line_input, from the state after
\* construction.
ReadNext ==
    \/ \E i \in IntrPoints : getch(i)
    \/ \E r \in Reads : GetchRead(r)
    \/ \E p \in Prompts : line_input(p)
    \/ \E i \in IntrPoints : LineGetch(i)
    \/ LineProcess
    \/ Interrupt

\* The calls run on: a getch that keeps reading is in the end given a
\* character by the stream, and line_input handles the character getch
\* returned to it.  Interrupts may arrive at any time.
LiveSpec ==
    Init /\ [][ReadNext]_vars /\ WF_vars(CharRead) /\ WF_vars(LineProcess)

(***************************************************************************)
(* The properties.                                                         *)
(***************************************************************************)
Returned(o) == pc = "idle" /\ op = o /\ outcome = "return"

OrdinarySeq(s) == \A k \in 1..Len(s) : s[k] \notin {LF, CR, BS, DEL, ESC}

Front(s) == SubSeq(s, 1, Len(s) - 1)

RECURSIVE RemoveEsc(_)
RemoveEsc(s) ==
    IF s = <<>> THEN <<>>
    ELSE (IF Head(s) = ESC THEN <<>> ELSE <<Head(s)>>) \o RemoveEsc(Tail(s))

\* C1: when line_input returns after getch delivered ordinary characters
\* followed by a newline or a carriage return, the line returned is exactly
\* those characters in order; and no returned line holds a newline or a
\* carriage return.
C1_LineInputReturnsTyped ==
    Returned("line_input") =>
        /\ \A k \in 1..Len(retval.str) : retval.str[k] \notin {LF, CR}
        /\ (/\ delivered # <<>>
            /\ delivered[Len(delivered)] \in {LF, CR}
            /\ OrdinarySeq(Front(delivered)))
               => retval = Str(Front(delivered))

C1_Witness ==
    /\ Returned("line_input")
    /\ Len(delivered) = 3
    /\ OrdinarySeq(Front(delivered))
    /\ delivered[1] # delivered[2]
    /\ retval = Str(Front(delivered))

\* C2: a step of line_input that handles a backspace (0x08) or delete (0x7f)
\* removes exactly the last character of a non-empty buffer, and leaves an
\* empty buffer empty and writes nothing.
C2_BackspaceRemovesOne ==
    [][ (pc = "li_char" /\ pc' = "li_call" /\ char[1] \in {BS, DEL}) =>
            /\ line # <<>> => line = line' \o <<line[Len(line)]>>
            /\ line = <<>> => (line' = <<>> /\ out' = out)
            /\ prompt' = prompt ]_vars

C2_Witness ==
    /\ pc = "li_call"
    /\ delivered = <<97, 98, DEL>>
    /\ line = <<97>>

\* C3: the escape character changes neither the buffer nor the output:
\* while line_input runs and when it returns, the buffer, the line returned
\* and the text written are those of the characters delivered with every
\* 0x1b removed.
C3_EscapeAbsorbed ==
    (op = "line_input"
        /\ (pc \in {"li_call", "getch_read"} \/ Returned("line_input"))) =>
        /\ line = LineAfter(<<>>, RemoveEsc(delivered))
        /\ out = prompt \o OutAfter(prompt, <<>>, RemoveEsc(delivered))
        /\ pc = "idle" => retval = Str(LineAfter(<<>>, RemoveEsc(delivered)))

C3_Witness ==
    /\ Returned("line_input")
    /\ delivered = <<97, ESC, 98, CR>>
    /\ retval = Str(<<97, 98>>)
    /\ out = prompt \o <<97, 98>>

\* C4: on a POSIX terminal, after a restore_mode call in which no interrupt
\* arrived, the live configuration is the one that was live at the last
\* successful save_mode, whatever calls were made in between.
C4_RestoreReturnsSaved ==
    (platform = "posix" /\ isatty /\ snap # None
        /\ pc = "idle" /\ op = "restore_mode" /\ ~intr) => term = snap

C4_Witness ==
    /\ platform = "posix" /\ isatty
    /\ pc = "idle" /\ op = "restore_mode" /\ ~intr /\ ~repeat
    /\ snap # None
    /\ term = snap
    /\ "ICANON" \in term.lflag

\* C5: a restore_mode called directly after a restore_mode, no interrupt
\* arriving in either, changes neither the live configuration nor the saved
\* state.
C5_RestoreIdempotent ==
    [][ (op' = "restore_mode" /\ repeat' /\ ~intr') =>
            (term' = term /\ oldattr' = oldattr) ]_vars

C5_Witness ==
    /\ platform = "posix" /\ isatty
    /\ pc = "idle" /\ op = "restore_mode" /\ repeat /\ ~intr
    /\ oldattr # None
    /\ term = oldattr
    /\ "ICANON" \in term.lflag

\* C6: a call during which an interrupt arrived ends with the
\* KeyboardInterrupt.
C6_InterruptPropagates ==
    (pc = "idle" /\ intr) => outcome = "KeyboardInterrupt"

\* C7: (POSIX) an interrupt raised by the read inside getch or getch_noblock
\* ends the call, line_input included, with the KeyboardInterrupt: no other
\* read follows and nothing is returned.
C7_ReadInterruptPropagates ==
    rd = "interrupt" =>
        /\ pc = "idle"
        /\ outcome = "KeyboardInterrupt"
        /\ retval = None
        /\ op \in {"getch", "getch_noblock", "line_input"}

C7_Witness ==
    /\ rd = "interrupt"
    /\ op = "line_input"
    /\ outcome = "KeyboardInterrupt"
    /\ delivered # <<>>

\* C8: getch returns exactly one character, to its caller and to
\* line_input; after a read that yields no character or fails, getch is at
\* its next read (unless an interrupt has since ended the call).
C8_GetchReturnsOneChar ==
    /\ Returned("getch") => Len(retval.str) = 1
    /\ pc = "li_char" => Len(char) = 1
    /\ (rd \in {"empty", "error"} /\ op \in {"getch", "line_input"}) =>
           \/ pc = "getch_read"
           \/ pc = "idle" /\ outcome = "KeyboardInterrupt"

C8_Witness ==
    /\ Returned("getch")
    /\ platform = "posix"
    /\ rd = "char"
    /\ retval = Str(<<97>>)

C10_NoblockNeverNewline ==
    (Returned("getch_noblock") /\ rd = "char") =>
        /\ retval # Str(<<LF>>)
        /\ retval = Str(IF avail = <<LF>> THEN <<CR>> ELSE avail)

ModeOps == {"save_mode", "noncanonical_mode", "restore_mode"}

\* C11: on a handle that is no terminal, a call of save_mode,
\* noncanonical_mode or restore_mode in which no interrupt arrives returns
\* without raising and changes neither the saved state nor the terminal
\* configuration; and getch returns the character its read yielded.
C11_NonTerminalHandle ==
    /\ [][ (~isatty /\ pc = "idle" /\ op' \in ModeOps /\ ~intr') =>
               /\ pc' = "idle" /\ outcome' = "return" /\ retval' = None
               /\ term' = term
               /\ oldattr' = oldattr ]_vars
    /\ [](( ~isatty /\ Returned("getch")) =>
               (rd = "char" /\ Len(avail) = 1 /\ retval = Str(avail)))

C11_Witness ==
    /\ platform = "posix" /\ ~isatty
    /\ Returned("noncanonical_mode") /\ repeat /\ ~intr
    /\ oldattr = None
    /\ "ICANON" \in term.lflag
    /\ term.cc.VMIN = 1

\* The terminal is in the mode noncanonical_mode sets.
Noncanonical(a) ==
    /\ "ICANON" \notin a.lflag /\ "ECHO" \notin a.lflag
    /\ a.cc.VMIN = 0 /\ a.cc.VTIME = 1

\* C12 (as stated): a save_mode called while a saved state exists leaves
\* the saved state unchanged.
C12_SaveKeepsExisting ==
    [][ (pc = "idle" /\ op' = "save_mode" /\ oldattr # None) =>
            oldattr' = oldattr ]_vars

\* C12 (amended): on a POSIX terminal, a save_mode call in which no
\* interrupt arrives replaces the saved state with the configuration live
\* at the call, also when a saved state exists; a save_mode issued in
\* noncanonical mode therefore replaces an earlier snapshot.
C12_SaveReplacesExisting ==
    [][ (platform = "posix" /\ isatty /\ pc = "idle" /\ op' = "save_mode"
             /\ ~intr') => oldattr' = term ]_vars

C12_Witness ==
    /\ platform = "posix" /\ isatty
    /\ Returned("save_mode") /\ ~intr
    /\ oldattr = term
    /\ "ISIG" \in term.lflag
    /\ Noncanonical(oldattr)

\* C13: the saved state is absent, or it is the configuration that was live
\* at the most recent successful save_mode; on Windows it is always absent.
C13_LastWriterWins ==
    /\ oldattr = snap
    /\ platform = "win" => oldattr = None
    /\ (pc = "idle" /\ op = "save_mode" /\ platform = "posix" /\ isatty
            /\ ~intr) => oldattr = term

C13_Witness ==
    /\ platform = "posix" /\ isatty
    /\ oldattr # None
    /\ oldattr = snap
    /\ Noncanonical(oldattr)
    /\ Returned("restore_mode") /\ ~intr
    /\ term = oldattr

\* C14: a restore_mode called while no saved state exists changes nothing:
\* the terminal configuration stays as it is, also in noncanonical mode,
\* and the saved state stays absent.
C14_RestoreWithoutSave ==
    [][ (pc = "idle" /\ op' = "restore_mode" /\ oldattr = None) =>
            (term' = term /\ oldattr' = None /\ snap' = None) ]_vars

C14_Witness ==
    /\ platform = "posix" /\ isatty
    /\ Returned("restore_mode") /\ ~intr
    /\ oldattr = None
    /\ Noncanonical(term)

\* C15: for the same pending input, getch_noblock returns the same result in
\* the Windows and in the POSIX variant: the result is the pending character
\* with a newline turned into a carriage return, and '' when nothing is
\* pending, whatever the platform.
C15_VariantsAgree ==
    \A p \in {"posix", "win"} :
        (platform = p /\ Returned("getch_noblock")) =>
            retval = Str(Normalize(avail))

\* The text the characters s produce on a line that shows the buffer buf
\* behind the prompt pr: an ordinary character is echoed; a backspace or
\* delete on a non-empty buffer produces a carriage return, as many spaces
\* as prompt and shortened buffer are long plus 5, a carriage return, the
\* prompt and the shortened buffer; every other character produces nothing.
RECURSIVE Echoed(_, _, _)
Echoed(pr, buf, s) ==
    IF s = <<>> THEN <<>>
    ELSE LET c == Head(s) IN
         IF c \in {LF, CR} THEN <<>>
         ELSE IF c = ESC THEN Echoed(pr, buf, Tail(s))
         ELSE IF c \in {BS, DEL}
         THEN IF buf = <<>> THEN Echoed(pr, buf, Tail(s))
              ELSE LET shortened == Front(buf) IN
                   <<CR>> \o [k \in 1..(Len(pr) + Len(shortened) + 5) |-> 32]
                       \o <<CR>> \o pr \o shortened
                       \o Echoed(pr, shortened, Tail(s))
         ELSE <<c>> \o Echoed(pr, buf \o <<c>>, Tail(s))

\* C16: while line_input runs and when it has returned, the text written
\* to the output is the prompt followed, for each character handled so far
\* in order, by the text that character produces.
C16_OutputExact ==
    /\ (op = "line_input" /\ pc \in {"li_call", "getch_read"}) =>
           out = prompt \o Echoed(prompt, <<>>, delivered)
    /\ (op = "line_input" /\ pc = "li_char") =>
           out = prompt \o Echoed(prompt, <<>>, Front(delivered))
    /\ Returned("line_input") =>
           out = prompt \o Echoed(prompt, <<>>, delivered)

C16_Witness ==
    /\ Returned("line_input")
    /\ prompt = <<62>>
    /\ delivered = <<97, DEL, 98, LF>>
    /\ out = <<62, 97, CR, 32, 32, 32, 32, 32, 32, CR, 62, 98>>
    /\ retval = Str(<<98>>)

\* C17: on a POSIX terminal, a noncanonical_mode call in which no interrupt
\* arrives leaves canonical mode and echo off, VMIN 0 and VTIME 1, and
\* every other attribute as it was in the live configuration before the
\* call; a second such call directly after the first leaves the
\* configuration unchanged.
C17_NoncanonicalIdempotent ==
    [][ (platform = "posix" /\ isatty /\ pc = "idle"
             /\ op' = "noncanonical_mode" /\ ~intr') =>
            /\ term'.lflag = term.lflag \ {"ICANON", "ECHO"}
            /\ term'.cc.VMIN = 0 /\ term'.cc.VTIME = 1
            /\ \A n \in (DOMAIN term.cc) \ {"VMIN", "VTIME"} :
                   term'.cc[n] = term.cc[n]
            /\ DOMAIN term'.cc = DOMAIN term.cc
            /\ repeat' => term' = term ]_vars

C17_Witness ==
    /\ platform = "posix" /\ isatty
    /\ Returned("noncanonical_mode") /\ repeat /\ ~intr
    /\ term.lflag = {"ISIG"}
    /\ term.cc = [VMIN |-> 0, VTIME |-> 1, VINTR |-> 3]
    /\ oldattr # None /\ "ICANON" \in oldattr.lflag

\* C18: when the stream in the end yields a character to a getch that keeps
\* reading, getch returns it (or an interrupt ends the call), and
\* line_input returns once a newline or carriage return has been delivered
\* to it (or an interrupt ends the call); conversely getch leaves its read
\* loop without an interrupt only by a read that yielded a character, and
\* line_input returns only after a newline or carriage return.
C18_PollLoopProgress ==
    /\ (op = "getch" /\ pc = "getch_read") ~>
           \/ Returned("getch") /\ rd = "char" /\ retval = Str(avail)
           \/ pc = "idle" /\ outcome = "KeyboardInterrupt"
    /\ (op = "line_input" /\ pc = "li_char" /\ IsTerminator(char)) ~>
           \/ Returned("line_input")
           \/ pc = "idle" /\ outcome = "KeyboardInterrupt"
    /\ [][ (pc = "getch_read" /\ pc' # "getch_read"
                /\ outcome' # "KeyboardInterrupt") =>
               (rd' = "char" /\ Len(char') = 1) ]_vars
    /\ [](Returned("line_input") =>
               (delivered # <<>> /\ delivered[Len(delivered)] \in {LF, CR}))

C18_Witness ==
    /\ Returned("getch")
    /\ platform = "posix" /\ isatty
    /\ rd = "char" /\ avail = <<98>>
    /\ retval = Str(<<98>>)
    /\ Noncanonical(term)

ReadOps == {"getch", "getch_noblock", "line_input"}

\* C19: on a POSIX terminal, when getch, getch_noblock or line_input has
\* returned, and when its read has raised an interrupt, the terminal is in
\* noncanonical mode, whatever its mode was before the call (no interrupt
\* having arrived earlier in the call); and the terminal leaves
\* noncanonical mode only in a restore_mode call.
C19_ReadsLeaveNoncanonical ==
    /\ []((platform = "posix" /\ isatty /\ pc = "idle" /\ op \in ReadOps
              /\ outcome = "return" /\ ~intr) => Noncanonical(term))
    /\ [][ (platform = "posix" /\ isatty /\ op \in ReadOps /\ ~intr
                /\ rd # "interrupt" /\ rd' = "interrupt") =>
               (pc' = "idle" /\ outcome' = "KeyboardInterrupt"
                    /\ Noncanonical(term')) ]_vars
    /\ [][ (Noncanonical(term) /\ ~Noncanonical(term')) =>
               (pc = "idle" /\ op' = "restore_mode") ]_vars

C19_Witness ==
    /\ platform = "posix" /\ isatty
    /\ Returned("line_input") /\ ~intr
    /\ Noncanonical(term)
    /\ oldattr # None /\ "ICANON" \in oldattr.lflag /\ "ECHO" \in oldattr.lflag
    /\ delivered = <<97, LF>>

\* C20: the saved state changes only in a save_mode call on a POSIX
\* terminal whose attribute query succeeds, and then to the live
\* configuration; noncanonical_mode, restore_mode, getch, getch_noblock and
\* line_input leave it as it is, and restore_mode does not clear it.
C20_OnlySaveChangesSaved ==
    [][ /\ oldattr' # oldattr =>
               /\ pc = "idle" /\ op' = "save_mode"
               /\ platform = "posix" /\ isatty
               /\ oldattr' = term
        /\ (op' # "save_mode" \/ pc # "idle") => oldattr' = oldattr ]_vars

C20_Witness ==
    /\ platform = "posix" /\ isatty
    /\ Returned("getch_noblock") /\ ~intr
    /\ oldattr # None
    /\ "ICANON" \in oldattr.lflag
    /\ Noncanonical(term)

====
